---- MODULE Spec2Model ----
(***************************************************************************)
(* Model of rs::core::pipeline_async_impl                                  *)
(* (sdk/src/core/pipeline/pipeline_async_impl.cpp): the lifecycle state    *)
(* machine, the configuration negotiation of set_config_unsafe, the        *)
(* consumer fan-out of non_blocking_sample_callback and the ordered        *)
(* teardown of ordered_resources_reset.                                    *)
(*                                                                         *)
(* One caller thread drives the lifecycle entry points; its position is    *)
(* pc.  One capture thread drives the device's sample callback; its        *)
(* position is cpc.  The two mutexes of the class are variables.           *)
(***************************************************************************)
EXTENDS Integers, Sequences, FiniteSets, TLC

\* number of sample sets the capture thread produces in one behaviour
MaxSamples == 2

\* ---------------------------------------------------------------------
\* Configurations (video_module_interface::supported_module_config)
\* ---------------------------------------------------------------------

\* the stream kinds and motion kinds the model enumerates
\* (stream_type::max and motion_type::max bound the loops of the matcher)
StreamTypes == {"depth", "color"}
MotionTypes == {"accel"}

NoStream == [is_enabled |-> FALSE, width |-> 0, height |-> 0, frame_rate |-> 0]
Stream(w, h, f) == [is_enabled |-> TRUE, width |-> w, height |-> h, frame_rate |-> f]

\* the time_sync_mode enumerator a value-initialised configuration carries
\* (the enumerator of value 0; the constructor and the hardcoded configuration
\* name sync_not_required explicitly)
ZeroTimeSyncMode == "time_sync_mode_0"

\* a value-initialised supported_module_config: the {} that start() passes
EmptyConfig ==
    [device_name |-> "",
     streams |-> [s \in StreamTypes |-> NoStream],
     motions |-> [m \in MotionTypes |-> [is_enabled |-> FALSE]],
     async_processing |-> FALSE,
     samples_time_sync_mode |-> ZeroTimeSyncMode]

\* get_hardcoded_superset_config: every stream 640x480@30, every motion
\* sensor enabled, no forced time sync
get_hardcoded_superset_config ==
    [device_name |-> "",
     streams |-> [s \in StreamTypes |-> Stream(640, 480, 30)],
     motions |-> [m \in MotionTypes |-> [is_enabled |-> TRUE]],
     async_processing |-> FALSE,
     samples_time_sync_mode |-> "sync_not_required"]

\* the configurations the application passes to set_config
UserDepth ==
    [EmptyConfig EXCEPT !.streams["depth"] = Stream(640, 480, 30),
                        !.samples_time_sync_mode = "sync_not_required"]
UserSmall ==
    [EmptyConfig EXCEPT !.streams["depth"] = Stream(320, 240, 30)]
UserOnB ==
    [UserDepth EXCEPT !.device_name = "B"]
UserConfigs == {EmptyConfig, UserDepth, UserSmall, UserOnB}

\* the module handles the application passes to add_cv_module (0 is nullptr)
Modules == {1, 2, 3}
NullModule == 0

\* what each module answers to query_supported_module_config(index, out):
\* the configuration at that index, an error past the end of the sequence
ModuleSupported(m) ==
    IF m = 1
    THEN << [EmptyConfig EXCEPT !.streams["depth"] = Stream(640, 480, 30)],
            [EmptyConfig EXCEPT !.streams["depth"] = Stream(640, 480, 0),
                                !.streams["color"] = Stream(640, 480, 30),
                                !.async_processing = TRUE,
                                !.samples_time_sync_mode = "sync_not_required"] >>
    ELSE IF m = 2
    THEN << [EmptyConfig EXCEPT !.device_name = "X",
                                !.streams["color"] = Stream(640, 480, 30)],
            [EmptyConfig EXCEPT !.streams["depth"] = Stream(640, 480, 30),
                                !.motions["accel"] = [is_enabled |-> TRUE],
                                !.async_processing = TRUE] >>
    ELSE << [EmptyConfig EXCEPT !.device_name = "X",
                                !.streams["depth"] = Stream(640, 480, 30)] >>

query_supported_module_config(m, config_index) ==
    IF config_index + 1 <= Len(ModuleSupported(m))
    THEN [status |-> "status_no_error", config |-> ModuleSupported(m)[config_index + 1]]
    ELSE [status |-> "status_item_unavailable", config |-> EmptyConfig]

\* config_util::is_config_empty: no stream and no motion sensor is enabled
is_config_empty(config) ==
    /\ \A s \in StreamTypes : ~config.streams[s].is_enabled
    /\ \A m \in MotionTypes : ~config.motions[m].is_enabled

\* ---------------------------------------------------------------------
\* config_util::generete_matching_supersets
\* ---------------------------------------------------------------------

RECURSIVE Flatten(_)
Flatten(ss) == IF ss = <<>> THEN <<>> ELSE Head(ss) \o Flatten(Tail(ss))

\* every choice of one candidate per group, in lexicographic order of the
\* (group 0 index, group 1 index, ...) tuples
RECURSIVE Combinations(_)
Combinations(groups) ==
    IF groups = <<>> THEN << <<>> >>
    ELSE LET rest == Combinations(Tail(groups))
             g    == Head(groups)
         IN  Flatten([i \in 1..Len(g) |->
                        [j \in 1..Len(rest) |-> <<g[i]>> \o rest[j]]])

StreamsConflict(a, b) ==
    /\ a.is_enabled /\ b.is_enabled
    /\ \/ a.width # b.width
       \/ a.height # b.height
       \/ (a.frame_rate # b.frame_rate /\ a.frame_rate # 0 /\ b.frame_rate # 0)

ConfigsConflict(a, b) ==
    \/ (a.device_name # "" /\ b.device_name # "" /\ a.device_name # b.device_name)
    \/ \E s \in StreamTypes : StreamsConflict(a.streams[s], b.streams[s])

MergeStream(a, b) ==
    IF ~a.is_enabled THEN b
    ELSE IF ~b.is_enabled THEN a
    ELSE [a EXCEPT !.frame_rate = IF a.frame_rate = 0 THEN b.frame_rate ELSE a.frame_rate]

MergeConfigs(a, b) ==
    [device_name |-> IF a.device_name = "" THEN b.device_name ELSE a.device_name,
     streams |-> [s \in StreamTypes |-> MergeStream(a.streams[s], b.streams[s])],
     motions |-> [m \in MotionTypes |->
                    [is_enabled |-> a.motions[m].is_enabled \/ b.motions[m].is_enabled]],
     async_processing |-> FALSE,
     samples_time_sync_mode |->
        IF a.samples_time_sync_mode = ZeroTimeSyncMode
        THEN b.samples_time_sync_mode ELSE a.samples_time_sync_mode]

\* the merge of one combination as a one-element sequence, or the empty
\* sequence when two of its members conflict (the combination is disqualified)
RECURSIVE MergeCombination(_, _)
MergeCombination(acc, combo) ==
    IF combo = <<>> THEN <<acc>>
    ELSE IF ConfigsConflict(acc, Head(combo)) THEN <<>>
    ELSE MergeCombination(MergeConfigs(acc, Head(combo)), Tail(combo))

generete_matching_supersets(groups) ==
    LET combos == Combinations(groups)
    IN  Flatten([k \in 1..Len(combos) |-> MergeCombination(EmptyConfig, combos[k])])

\* ---------------------------------------------------------------------
\* is_there_a_satisfying_module_config
\* ---------------------------------------------------------------------

\* the device-name test of the matcher: the given (superset) configuration
\* names no device, or names the device of the supported candidate
is_the_device_in_the_current_config_valid(given_config, supported_config) ==
    \/ given_config.device_name = ""
    \/ given_config.device_name = supported_config.device_name

is_satisfying_stream_config(stream_config, given_stream_config) ==
    /\ given_stream_config.is_enabled
    /\ stream_config.width = given_stream_config.width
    /\ stream_config.height = given_stream_config.height
    /\ \/ stream_config.frame_rate = given_stream_config.frame_rate
       \/ stream_config.frame_rate = 0

are_all_streams_in_the_current_config_satisfied(given_config, supported_config) ==
    \A s \in StreamTypes :
        supported_config.streams[s].is_enabled =>
            is_satisfying_stream_config(supported_config.streams[s], given_config.streams[s])

are_all_motions_in_the_current_config_satisfied(given_config, supported_config) ==
    \A m \in MotionTypes :
        supported_config.motions[m].is_enabled => given_config.motions[m].is_enabled

IsSatisfied(given_config, supported_config) ==
    /\ is_the_device_in_the_current_config_valid(given_config, supported_config)
    /\ are_all_streams_in_the_current_config_satisfied(given_config, supported_config)
    /\ are_all_motions_in_the_current_config_satisfied(given_config, supported_config)

\* is_there_a_satisfying_module_config without the return of line 388: a later
\* satisfied candidate overwrites an earlier one
RECURSIVE is_there_a_satisfying_module_config_keeping_last(_, _, _)
is_there_a_satisfying_module_config_keeping_last(cv_module, given_config, config_index) ==
    LET q == query_supported_module_config(cv_module, config_index)
    IN  IF q.status # "status_no_error"
        THEN [found |-> FALSE, satisfying_config |-> EmptyConfig]
        ELSE LET later == is_there_a_satisfying_module_config_keeping_last(
                              cv_module, given_config, config_index + 1)
             IN  IF later.found THEN later
                 ELSE IF IsSatisfied(given_config, q.config)
                 THEN [found |-> TRUE, satisfying_config |-> q.config]
                 ELSE [found |-> FALSE, satisfying_config |-> EmptyConfig]

\* the loop over config_index = 0, 1, ...: the first satisfied candidate,
\* found = FALSE when the module's enumeration ends first
RECURSIVE is_there_a_satisfying_module_config(_, _, _)
is_there_a_satisfying_module_config(cv_module, given_config, config_index) ==
    LET q == query_supported_module_config(cv_module, config_index)
    IN  IF q.status # "status_no_error"
        THEN [found |-> FALSE, satisfying_config |-> EmptyConfig]
        ELSE IF IsSatisfied(given_config, q.config)
        THEN [found |-> TRUE, satisfying_config |-> q.config]
        ELSE is_there_a_satisfying_module_config(cv_module, given_config, config_index + 1)

\* ---------------------------------------------------------------------
\* State
\* ---------------------------------------------------------------------

VARIABLES
    m_current_state,                  \* state::unconfigured / configured / streaming
    m_device_manager,                 \* the unique_ptr to the device manager
    m_cv_modules,                     \* the registered modules, in registration order
    m_modules_configs,                \* module -> (actual config, async flag, sync mode)
    m_user_requested_time_sync_mode,
    m_samples_consumers,              \* the consumer list the callback iterates
    m_state_lock,                     \* owner of the state mutex, or "free"
    m_samples_consumers_lock,         \* owner of the consumer-list mutex, or "free"
    m_context,                        \* the names of the devices of the context
    pc,                               \* position of the caller thread
    call,                             \* the entry point being (or last) called
    ret,                              \* status the last call returned, or "pending"
    set_config_status,                \* what set_config_unsafe returned
    supersets,                        \* the local vector of set_config_unsafe
    superset_index,                   \* position of the loop over the supersets
    samples_consumers,                \* the local list start() builds
    flush_index,                      \* position of the flush loop of the teardown
    cpc,                              \* position of the capture thread
    ci,                               \* the loop index i of the callback
    sample_set,                       \* the sample set the callback carries
    produced,                         \* number of sample sets produced so far
    attempts,                         \* history: the attempts of the current negotiation
    events,                           \* history: what the current teardown did, in order
    built,                            \* history: the list the last start() installed
    received,                         \* history: per consumer of built, the samples notified
    dispatched,                       \* history: the dispatches since the last install
    callbacks                         \* history: what the consumers called during the
                                      \* dispatch in progress, in order

vars == << m_current_state, m_device_manager, m_cv_modules, m_modules_configs,
           m_user_requested_time_sync_mode, m_samples_consumers, m_state_lock,
           m_samples_consumers_lock, m_context, pc, call, ret, set_config_status,
           supersets, superset_index, samples_consumers, flush_index, cpc, ci, sample_set,
           produced, attempts, events, built, received, dispatched, callbacks >>

pipeline_vars == << m_current_state, m_device_manager, m_cv_modules, m_modules_configs,
                    m_user_requested_time_sync_mode >>
caller_locals == << set_config_status, supersets, superset_index, samples_consumers,
                    flush_index >>
capture_vars  == << cpc, ci, sample_set, produced >>
history_vars  == << attempts, events, built, received, dispatched, callbacks >>

Range(s) == {s[k] : k \in 1..Len(s)}

\* m_device_manager == nullptr
NullDeviceManager ==
    [is_null |-> TRUE, device |-> "", config |-> EmptyConfig, streaming |-> FALSE]

\* the map without entries
NoModulesConfigs == [m \in {} |-> EmptyConfig]

\* the entry point called, its arguments, and (history) the lifecycle state
\* the call found
NoCall == [op |-> "none", cv_module |-> NullModule, config |-> EmptyConfig,
           app_callbacks_handler |-> FALSE, entry_state |-> "unconfigured"]

Call(op) == [NoCall EXCEPT !.op = op, !.entry_state = m_current_state]

\* the device lists of the contexts the pipeline is constructed over
Contexts == { <<"A", "B">> }

\* pipeline_async_impl::pipeline_async_impl
Init ==
    /\ m_current_state = "unconfigured"
    /\ m_device_manager = NullDeviceManager
    /\ m_cv_modules = <<>>
    /\ m_modules_configs = NoModulesConfigs
    /\ m_user_requested_time_sync_mode = "sync_not_required"
    /\ m_samples_consumers = <<>>
    /\ m_state_lock = "free"
    /\ m_samples_consumers_lock = "free"
    /\ m_context \in Contexts
    /\ pc = "idle"
    /\ call = NoCall
    /\ ret = "none"
    /\ set_config_status = "none"
    /\ supersets = <<>>
    /\ superset_index = 0
    /\ samples_consumers = <<>>
    /\ flush_index = 0
    /\ cpc = "idle"
    /\ ci = 0
    /\ sample_set = 0
    /\ produced = 0
    /\ attempts = <<>>
    /\ events = <<>>
    /\ built = <<>>
    /\ received = <<>>
    /\ dispatched = <<>>
    /\ callbacks = <<>>

\* ---------------------------------------------------------------------
\* add_cv_module, query_current_config
\* ---------------------------------------------------------------------

\* add_cv_module_status without the find_if of lines 66-74
add_cv_module_status_without_duplicate_check(cv_module) ==
    IF cv_module = NullModule THEN "status_data_not_initialized"
    ELSE IF m_current_state \in {"streaming", "configured"} THEN "status_invalid_state"
    ELSE "status_no_error"

\* add_cv_module_status without the state switch of lines 56-64
add_cv_module_status_without_state_check(cv_module) ==
    IF cv_module = NullModule THEN "status_data_not_initialized"
    ELSE IF cv_module \in Range(m_cv_modules) THEN "status_param_inplace"
    ELSE "status_no_error"

add_cv_module_status(cv_module) ==
    IF cv_module = NullModule THEN "status_data_not_initialized"
    ELSE IF m_current_state \in {"streaming", "configured"} THEN "status_invalid_state"
    ELSE IF cv_module \in Range(m_cv_modules) THEN "status_param_inplace"
    ELSE "status_no_error"

\* the null test of lines 50-53 comes before the lock_guard of line 55
add_cv_module(cv_module) ==
    /\ pc = "idle"
    /\ cv_module # NullModule => m_state_lock = "free"
    /\ call' = [Call("add_cv_module") EXCEPT !.cv_module = cv_module]
    /\ ret' = add_cv_module_status(cv_module)
    /\ m_cv_modules' = IF add_cv_module_status(cv_module) = "status_no_error"
                       THEN Append(m_cv_modules, cv_module)
                       ELSE m_cv_modules
    /\ UNCHANGED << m_current_state, m_device_manager, m_modules_configs,
                    m_user_requested_time_sync_mode, m_samples_consumers, m_state_lock,
                    m_samples_consumers_lock, m_context, pc, caller_locals,
                    capture_vars, history_vars >>

query_current_config_status ==
    IF m_current_state = "unconfigured" THEN "status_invalid_state"
    ELSE IF m_device_manager.is_null THEN "status_data_unavailable"
    ELSE "status_no_error"

query_current_config ==
    /\ pc = "idle"
    /\ m_state_lock = "free"
    /\ call' = Call("query_current_config")
    /\ ret' = query_current_config_status
    /\ UNCHANGED << pipeline_vars, m_samples_consumers, m_state_lock,
                    m_samples_consumers_lock, m_context, pc, caller_locals,
                    capture_vars, history_vars >>

\* lines 291-293: get_device takes no lock before it reads m_device_manager
get_device ==
    /\ pc = "idle"
    /\ call' = Call("get_device")
    /\ ret' = "pending"
    /\ pc' = "get_device"
    /\ UNCHANGED << pipeline_vars, m_samples_consumers, m_state_lock,
                    m_samples_consumers_lock, m_context, caller_locals,
                    capture_vars, history_vars >>

\* lines 293-297: nullptr, or the underlying device of the device manager
get_device_return ==
    /\ pc = "get_device"
    /\ ret' = IF m_device_manager.is_null THEN "nullptr" ELSE m_device_manager.device
    /\ pc' = "idle"
    /\ UNCHANGED << pipeline_vars, m_samples_consumers, m_state_lock,
                    m_samples_consumers_lock, m_context, call, caller_locals,
                    capture_vars, history_vars >>

\* ---------------------------------------------------------------------
\* set_config_unsafe: the negotiation
\* ---------------------------------------------------------------------

\* the first device of the context the configuration admits, else nullptr
RECURSIVE get_device_from_config_loop(_, _)
get_device_from_config_loop(config, i) ==
    IF i > Len(m_context) THEN [is_null |-> TRUE, name |-> ""]
    ELSE IF config.device_name = "" \/ config.device_name = m_context[i]
    THEN [is_null |-> FALSE, name |-> m_context[i]]
    ELSE get_device_from_config_loop(config, i + 1)

\* get_device_from_config with is_any_device_valid always true
get_device_from_config_ignoring_name(config) ==
    IF Len(m_context) = 0 THEN [is_null |-> TRUE, name |-> ""]
    ELSE [is_null |-> FALSE, name |-> m_context[1]]

get_device_from_config(config) == get_device_from_config_loop(config, 1)

\* rs::core::device_manager's constructor throws when it is handed no device
\* or when the device rejects the configuration
device_manager_constructor_throws(device, device_rejects) ==
    device.is_null \/ device_rejects

\* device_manager::create_actual_config_from_supported_config: the supported
\* configuration bound to the acquired device, wildcards resolved
create_actual_config_from_supported_config(device_manager, supported_config) ==
    [supported_config EXCEPT
        !.device_name = device_manager.device,
        !.streams = [s \in StreamTypes |->
            IF supported_config.streams[s].is_enabled
               /\ supported_config.streams[s].frame_rate = 0
            THEN [supported_config.streams[s] EXCEPT
                     !.frame_rate = device_manager.config.streams[s].frame_rate]
            ELSE supported_config.streams[s]]]

\* the configuration set_config_unsafe is called with
unsafe_config == IF call.op = "start" THEN EmptyConfig ELSE call.config

\* groups: the supported configurations of every module, then the user's
groups ==
    [k \in 1..Len(m_cv_modules) |-> ModuleSupported(m_cv_modules[k])]
        \o << <<unsafe_config>> >>

\* the guard of lines 480-483 left out
nothing_to_negotiate_unchecked == FALSE

\* lines 480-483: an empty request and no module
nothing_to_negotiate == is_config_empty(unsafe_config) /\ m_cv_modules = <<>>

\* set_config_unsafe_begin with m_device_manager.reset() (line 513) hoisted
\* above the guard
set_config_unsafe_begin_discarding_device ==
    /\ pc = "set_config_unsafe"
    /\ attempts' = <<>>
    /\ m_device_manager' = NullDeviceManager
    /\ IF nothing_to_negotiate
       THEN /\ set_config_status' = "status_invalid_argument"
            /\ pc' = "set_config_unsafe_return"
            /\ UNCHANGED << supersets, superset_index >>
       ELSE /\ supersets' = generete_matching_supersets(groups)
            /\ superset_index' = 1
            /\ pc' = "set_config_unsafe_loop"
            /\ UNCHANGED set_config_status
    /\ UNCHANGED << m_current_state, m_cv_modules, m_modules_configs,
                    m_user_requested_time_sync_mode, m_samples_consumers, m_state_lock,
                    m_samples_consumers_lock, m_context, call, ret, samples_consumers,
                    flush_index, capture_vars, events, built, received, dispatched,
                    callbacks >>

\* lines 480-508: the empty-request guard, then the supersets are generated
set_config_unsafe_begin ==
    /\ pc = "set_config_unsafe"
    /\ attempts' = <<>>
    /\ IF nothing_to_negotiate
       THEN /\ set_config_status' = "status_invalid_argument"
            /\ pc' = "set_config_unsafe_return"
            /\ UNCHANGED << supersets, superset_index >>
       ELSE /\ supersets' = generete_matching_supersets(groups)
            /\ superset_index' = 1
            /\ pc' = "set_config_unsafe_loop"
            /\ UNCHANGED set_config_status
    /\ UNCHANGED << pipeline_vars, m_samples_consumers, m_state_lock,
                    m_samples_consumers_lock, m_context, call, ret, samples_consumers,
                    flush_index, capture_vars, events, built, received, dispatched, callbacks >>

\* attempt_outcome with the check of module_config_status (lines 576-585) left out
attempt_outcome_ignoring_rejection(throws, found_satisfying_config_to_each_module, rejecting) ==
    IF throws THEN "device_failed"
    ELSE IF ~found_satisfying_config_to_each_module THEN "no_match"
    ELSE "commit"

\* what one pass of the loop over the supersets decides
attempt_outcome(throws, found_satisfying_config_to_each_module, rejecting) ==
    IF throws THEN "device_failed"
    ELSE IF ~found_satisfying_config_to_each_module THEN "no_match"
    ELSE IF rejecting # 0 THEN "module_rejected"
    ELSE "commit"

\* reset_config_calls that clears only the modules configured before the one
\* that rejected
reset_config_calls_before_rejecting(outcome, rejecting) ==
    IF outcome = "module_rejected" THEN SubSeq(m_cv_modules, 1, rejecting - 1) ELSE <<>>

\* lines 576-585: reset_config is called on every registered module
reset_config_calls(outcome, rejecting) ==
    IF outcome = "module_rejected" THEN m_cv_modules ELSE <<>>

\* lines 511-592: one pass of the loop.  device_rejects: the device rejects the
\* superset; rejecting: the position in m_cv_modules of the first module whose
\* set_module_config fails, 0 when every module accepts
set_config_unsafe_attempt(device_rejects, rejecting) ==
    /\ pc = "set_config_unsafe_loop"
    /\ superset_index <= Len(supersets)
    /\ LET superset == supersets[superset_index]
           device == get_device_from_config(superset)
           throws == device_manager_constructor_throws(device, device_rejects)
           device_manager == [is_null |-> FALSE, device |-> device.name,
                              config |-> superset, streaming |-> FALSE]
           match(m) == is_there_a_satisfying_module_config(m, superset, 0)
           found_all == \A m \in Range(m_cv_modules) : match(m).found
           modules_configs ==
               [m \in Range(m_cv_modules) |->
                   [actual_module_config |->
                        create_actual_config_from_supported_config(
                            device_manager, match(m).satisfying_config),
                    is_async |-> match(m).satisfying_config.async_processing,
                    time_sync_mode |-> match(m).satisfying_config.samples_time_sync_mode]]
           outcome == attempt_outcome(throws, found_all, rejecting)
           n == Len(m_cv_modules)
       IN  /\ attempts' = Append(attempts,
                [index |-> superset_index,
                 device_throws |-> throws,
                 rejecting |-> IF outcome \in {"module_rejected", "commit"}
                               THEN rejecting ELSE 0,
                 set_module_config |->
                    IF outcome = "commit" THEN m_cv_modules
                    ELSE IF outcome = "module_rejected" THEN SubSeq(m_cv_modules, 1, rejecting)
                    ELSE <<>>,
                 reset_config |-> reset_config_calls(outcome, rejecting),
                 outcome |-> outcome])
           /\ IF outcome = "commit"
              THEN /\ m_modules_configs' = modules_configs
                   /\ m_device_manager' = device_manager
                   /\ m_user_requested_time_sync_mode' = unsafe_config.samples_time_sync_mode
                   /\ set_config_status' = "status_no_error"
                   /\ pc' = "set_config_unsafe_return"
                   /\ UNCHANGED superset_index
              ELSE /\ m_device_manager' = NullDeviceManager
                   /\ superset_index' = superset_index + 1
                   /\ UNCHANGED << m_modules_configs, m_user_requested_time_sync_mode,
                                   set_config_status, pc >>
    /\ UNCHANGED << m_current_state, m_cv_modules, m_samples_consumers, m_state_lock,
                    m_samples_consumers_lock, m_context, call, ret, supersets,
                    samples_consumers, flush_index, capture_vars, events, built,
                    received, dispatched, callbacks >>

\* line 594: every superset was tried
set_config_unsafe_exhausted ==
    /\ pc = "set_config_unsafe_loop"
    /\ superset_index > Len(supersets)
    /\ set_config_status' = "status_match_not_found"
    /\ pc' = "set_config_unsafe_return"
    /\ UNCHANGED << pipeline_vars, m_samples_consumers, m_state_lock,
                    m_samples_consumers_lock, m_context, call, ret, supersets,
                    superset_index, samples_consumers, flush_index, capture_vars,
                    history_vars >>

\* ---------------------------------------------------------------------
\* set_config
\* ---------------------------------------------------------------------

\* lines 112-121: the state switch
set_config(config) ==
    /\ pc = "idle"
    /\ m_state_lock = "free"
    /\ call' = [Call("set_config") EXCEPT !.config = config]
    /\ IF m_current_state = "streaming"
       THEN /\ ret' = "status_invalid_state"
            /\ UNCHANGED << pc, m_state_lock >>
       ELSE /\ ret' = "pending"
            /\ pc' = "set_config_unsafe"
            /\ m_state_lock' = "caller"
    /\ UNCHANGED << pipeline_vars, m_samples_consumers, m_samples_consumers_lock,
                    m_context, caller_locals, capture_vars, history_vars >>

\* lines 122-127: the state the pipeline is in once set_config_unsafe returned
state_after_set_config(status) ==
    IF status = "status_no_error" THEN "configured" ELSE m_current_state

set_config_return ==
    /\ pc = "set_config_unsafe_return"
    /\ call.op = "set_config"
    /\ m_current_state' = state_after_set_config(set_config_status)
    /\ ret' = set_config_status
    /\ pc' = "idle"
    /\ m_state_lock' = "free"
    /\ attempts' = <<>>
    /\ set_config_status' = "none"
    /\ supersets' = <<>>
    /\ superset_index' = 0
    /\ call' = [call EXCEPT !.config = EmptyConfig]
    /\ UNCHANGED << m_device_manager, m_cv_modules, m_modules_configs,
                    m_user_requested_time_sync_mode, m_samples_consumers,
                    m_samples_consumers_lock, m_context, samples_consumers,
                    flush_index, capture_vars, events, built, received, dispatched, callbacks >>

\* ---------------------------------------------------------------------
\* start
\* ---------------------------------------------------------------------

\* lines 153-175: the state switch
start(app_callbacks_handler) ==
    /\ pc = "idle"
    /\ m_state_lock = "free"
    /\ call' = [Call("start") EXCEPT !.app_callbacks_handler = app_callbacks_handler]
    /\ IF m_current_state = "streaming"
       THEN /\ ret' = "status_invalid_state"
            /\ UNCHANGED << pc, m_state_lock >>
       ELSE /\ ret' = "pending"
            /\ pc' = IF m_current_state = "unconfigured"
                     THEN "set_config_unsafe" ELSE "start_build"
            /\ m_state_lock' = "caller"
    /\ UNCHANGED << pipeline_vars, m_samples_consumers, m_samples_consumers_lock,
                    m_context, caller_locals, capture_vars, history_vars >>

\* lines 160-170: set_config_unsafe({}) returned to start()
start_after_set_config ==
    /\ pc = "set_config_unsafe_return"
    /\ call.op = "start"
    /\ IF set_config_status # "status_no_error"
       THEN /\ ret' = set_config_status
            /\ pc' = "idle"
            /\ m_state_lock' = "free"
            /\ UNCHANGED m_current_state
       ELSE /\ m_current_state' = "configured"
            /\ pc' = "start_build"
            /\ UNCHANGED << ret, m_state_lock >>
    /\ attempts' = <<>>
    /\ set_config_status' = "none"
    /\ supersets' = <<>>
    /\ superset_index' = 0
    /\ UNCHANGED << m_device_manager, m_cv_modules, m_modules_configs,
                    m_user_requested_time_sync_mode, m_samples_consumers,
                    m_samples_consumers_lock, m_context, call, samples_consumers,
                    flush_index, capture_vars, events, built, received, dispatched, callbacks >>

\* lines 177-178: what the two assertions of start() require
start_preconditions == m_current_state = "configured" /\ ~m_device_manager.is_null

\* the assertions fail, or without them the null device manager is
\* dereferenced at line 184 or 238: the process ends
start_preconditions_fail ==
    /\ pc = "start_build"
    /\ ~start_preconditions
    /\ pc' = "crashed"
    /\ ret' = "crashed"
    /\ UNCHANGED << pipeline_vars, m_samples_consumers, m_state_lock,
                    m_samples_consumers_lock, m_context, call, caller_locals,
                    capture_vars, history_vars >>

\* std::map::operator[] at lines 198-200 inserts a value-initialised tuple
\* for a module without an entry
DefaultModuleConfig ==
    [actual_module_config |-> EmptyConfig, is_async |-> FALSE,
     time_sync_mode |-> ZeroTimeSyncMode]

modules_configs_after_lookup ==
    [m \in (DOMAIN m_modules_configs) \cup Range(m_cv_modules) |->
        IF m \in DOMAIN m_modules_configs THEN m_modules_configs[m]
        ELSE DefaultModuleConfig]

\* new_samples_consumers with the application's consumer pushed after the
\* loop over the modules
new_samples_consumers_application_last(app_callbacks_handler) ==
    [k \in 1..Len(m_cv_modules) |->
          LET entry == modules_configs_after_lookup[m_cv_modules[k]]
          IN  [kind |-> IF entry.is_async THEN "async" ELSE "sync",
               target |-> m_cv_modules[k],
               app_callbacks_handler |-> app_callbacks_handler,
               config |-> entry.actual_module_config,
               time_sync_mode |-> entry.time_sync_mode]]
    \o (IF app_callbacks_handler
        THEN << [kind |-> "sync", target |-> 0,
                 app_callbacks_handler |-> app_callbacks_handler,
                 config |-> m_device_manager.config,
                 time_sync_mode |-> m_user_requested_time_sync_mode] >>
        ELSE <<>>)

\* lines 180-234: the list start() builds; target 0 is the application
new_samples_consumers(app_callbacks_handler) ==
    (IF app_callbacks_handler
     THEN << [kind |-> "sync", target |-> 0,
              app_callbacks_handler |-> app_callbacks_handler,
              config |-> m_device_manager.config,
              time_sync_mode |-> m_user_requested_time_sync_mode] >>
     ELSE <<>>)
    \o [k \in 1..Len(m_cv_modules) |->
          LET entry == modules_configs_after_lookup[m_cv_modules[k]]
          IN  [kind |-> IF entry.is_async THEN "async" ELSE "sync",
               target |-> m_cv_modules[k],
               app_callbacks_handler |-> app_callbacks_handler,
               config |-> entry.actual_module_config,
               time_sync_mode |-> entry.time_sync_mode]]

\* start_build with the commit of lines 252-255 moved before the device start
start_build_installing_before_device_start(device_start_throws) ==
    /\ pc = "start_build"
    /\ start_preconditions
    /\ m_modules_configs' = modules_configs_after_lookup
    /\ m_samples_consumers' = new_samples_consumers(call.app_callbacks_handler)
    /\ IF device_start_throws
       THEN /\ ret' = "status_device_failed"
            /\ pc' = "idle"
            /\ m_state_lock' = "free"
            /\ UNCHANGED << m_device_manager, samples_consumers >>
       ELSE /\ m_device_manager' = [m_device_manager EXCEPT !.streaming = TRUE]
            /\ samples_consumers' = new_samples_consumers(call.app_callbacks_handler)
            /\ pc' = "start_commit"
            /\ UNCHANGED << ret, m_state_lock >>
    /\ UNCHANGED << m_current_state, m_cv_modules, m_user_requested_time_sync_mode,
                    m_samples_consumers_lock, m_context, call,
                    set_config_status, supersets, superset_index, flush_index,
                    capture_vars, history_vars >>

\* lines 180-249: the consumers are built and the device is started
start_build(device_start_throws) ==
    /\ pc = "start_build"
    /\ start_preconditions
    /\ m_modules_configs' = modules_configs_after_lookup
    /\ IF device_start_throws
       THEN /\ ret' = "status_device_failed"
            /\ pc' = "idle"
            /\ m_state_lock' = "free"
            /\ UNCHANGED << m_device_manager, samples_consumers >>
       ELSE /\ m_device_manager' = [m_device_manager EXCEPT !.streaming = TRUE]
            /\ samples_consumers' = new_samples_consumers(call.app_callbacks_handler)
            /\ pc' = "start_commit"
            /\ UNCHANGED << ret, m_state_lock >>
    /\ UNCHANGED << m_current_state, m_cv_modules, m_user_requested_time_sync_mode,
                    m_samples_consumers, m_samples_consumers_lock, m_context, call,
                    set_config_status, supersets, superset_index, flush_index,
                    capture_vars, history_vars >>

\* lines 252-255: the list is installed under the consumer-list lock
start_commit ==
    /\ pc = "start_commit"
    /\ m_samples_consumers_lock = "free"
    /\ m_samples_consumers' = samples_consumers
    /\ samples_consumers' = <<>>
    /\ built' = samples_consumers
    /\ received' = [k \in 1..Len(samples_consumers) |-> <<>>]
    /\ dispatched' = <<>>
    /\ callbacks' = <<>>
    /\ pc' = "start_finish"
    /\ UNCHANGED << pipeline_vars, m_state_lock, m_samples_consumers_lock, m_context,
                    call, ret, set_config_status, supersets, superset_index,
                    flush_index, capture_vars, attempts, events >>

\* lines 257-258
start_finish ==
    /\ pc = "start_finish"
    /\ m_current_state' = "streaming"
    /\ ret' = "status_no_error"
    /\ pc' = "idle"
    /\ m_state_lock' = "free"
    /\ UNCHANGED << m_device_manager, m_cv_modules, m_modules_configs,
                    m_user_requested_time_sync_mode, m_samples_consumers,
                    m_samples_consumers_lock, m_context, call, caller_locals,
                    capture_vars, history_vars >>

\* ---------------------------------------------------------------------
\* stop, reset, the destructor and ordered_resources_reset
\* ---------------------------------------------------------------------

\* stop with the state switch of lines 264-272 left out
stop_without_state_check ==
    /\ pc = "idle"
    /\ m_state_lock = "free"
    /\ call' = Call("stop")
    /\ ret' = "pending"
    /\ pc' = "ordered_resources_reset"
    /\ m_state_lock' = "caller"
    /\ UNCHANGED << pipeline_vars, m_samples_consumers, m_samples_consumers_lock,
                    m_context, caller_locals, capture_vars, history_vars >>

\* lines 263-274: the state switch
stop ==
    /\ pc = "idle"
    /\ m_state_lock = "free"
    /\ call' = Call("stop")
    /\ IF m_current_state = "streaming"
       THEN /\ ret' = "pending"
            /\ pc' = "ordered_resources_reset"
            /\ m_state_lock' = "caller"
       ELSE /\ ret' = "status_invalid_state"
            /\ UNCHANGED << pc, m_state_lock >>
    /\ UNCHANGED << pipeline_vars, m_samples_consumers, m_samples_consumers_lock,
                    m_context, caller_locals, capture_vars, history_vars >>

\* lines 281-282
reset ==
    /\ pc = "idle"
    /\ m_state_lock = "free"
    /\ call' = Call("reset")
    /\ ret' = "pending"
    /\ pc' = "ordered_resources_reset"
    /\ m_state_lock' = "caller"
    /\ UNCHANGED << pipeline_vars, m_samples_consumers, m_samples_consumers_lock,
                    m_context, caller_locals, capture_vars, history_vars >>

\* lines 597-599: the destructor takes no lock
destructor ==
    /\ pc = "idle"
    /\ call' = Call("destructor")
    /\ ret' = "pending"
    /\ pc' = "ordered_resources_reset"
    /\ UNCHANGED << pipeline_vars, m_samples_consumers, m_state_lock,
                    m_samples_consumers_lock, m_context, caller_locals, capture_vars,
                    history_vars >>

\* ordered_resources_reset_clear with the device stopped before the consumers
\* are cleared
ordered_resources_reset_clear_after_device_stop ==
    /\ pc = "ordered_resources_reset"
    /\ m_samples_consumers_lock = "free"
    /\ m_samples_consumers' = <<>>
    /\ m_device_manager' = IF m_device_manager.is_null THEN m_device_manager
                           ELSE [m_device_manager EXCEPT !.streaming = FALSE]
    /\ events' = events
                  \o (IF m_device_manager.is_null THEN <<>>
                      ELSE << [e |-> "stop", target |-> 0] >>)
                  \o << [e |-> "clear", target |-> 0] >>
    /\ flush_index' = 1
    /\ pc' = "ordered_resources_reset_flush"
    /\ UNCHANGED << m_current_state, m_cv_modules, m_modules_configs,
                    m_user_requested_time_sync_mode, m_state_lock,
                    m_samples_consumers_lock, m_context, call, ret, set_config_status,
                    supersets, superset_index, samples_consumers, capture_vars,
                    attempts, built, received, dispatched, callbacks >>

\* ordered_resources_reset_clear without m_samples_consumers.clear() (line 409)
ordered_resources_reset_clear_keeping_consumers ==
    /\ pc = "ordered_resources_reset"
    /\ m_samples_consumers_lock = "free"
    /\ events' = Append(events, [e |-> "clear", target |-> 0])
    /\ flush_index' = 1
    /\ pc' = "ordered_resources_reset_flush"
    /\ UNCHANGED << pipeline_vars, m_samples_consumers, m_state_lock,
                    m_samples_consumers_lock, m_context, call, ret, set_config_status,
                    supersets, superset_index, samples_consumers, capture_vars,
                    attempts, built, received, dispatched, callbacks >>

\* lines 407-410: the consumer list is cleared under the consumer-list lock
ordered_resources_reset_clear ==
    /\ pc = "ordered_resources_reset"
    /\ m_samples_consumers_lock = "free"
    /\ m_samples_consumers' = <<>>
    /\ events' = Append(events, [e |-> "clear", target |-> 0])
    /\ flush_index' = 1
    /\ pc' = "ordered_resources_reset_flush"
    /\ UNCHANGED << pipeline_vars, m_state_lock, m_samples_consumers_lock, m_context,
                    call, ret, set_config_status, supersets, superset_index,
                    samples_consumers, capture_vars, attempts, built, received,
                    dispatched, callbacks >>

\* lines 413-416: one pass of the loop over m_cv_modules
ordered_resources_reset_flush ==
    /\ pc = "ordered_resources_reset_flush"
    /\ flush_index <= Len(m_cv_modules)
    /\ events' = Append(events, [e |-> "flush", target |-> m_cv_modules[flush_index]])
    /\ flush_index' = flush_index + 1
    /\ UNCHANGED << pipeline_vars, m_samples_consumers, m_state_lock,
                    m_samples_consumers_lock, m_context, pc, call, ret,
                    set_config_status, supersets, superset_index, samples_consumers,
                    capture_vars, attempts, built, received, dispatched, callbacks >>

\* lines 418-421: the device is stopped, if there is one.  device_manager::stop
\* returns once the capture thread has left the callback it is in
ordered_resources_reset_stop ==
    /\ pc = "ordered_resources_reset_flush"
    /\ flush_index > Len(m_cv_modules)
    /\ IF m_device_manager.is_null
       THEN UNCHANGED << m_device_manager, events >>
       ELSE /\ cpc = "idle"
            /\ m_device_manager' = [m_device_manager EXCEPT !.streaming = FALSE]
            /\ events' = Append(events, [e |-> "stop", target |-> 0])
    /\ flush_index' = 0
    /\ pc' = "ordered_resources_reset_return"
    /\ UNCHANGED << m_current_state, m_cv_modules, m_modules_configs,
                    m_user_requested_time_sync_mode, m_samples_consumers, m_state_lock,
                    m_samples_consumers_lock, m_context, call, ret, set_config_status,
                    supersets, superset_index, samples_consumers, capture_vars,
                    attempts, built, received, dispatched, callbacks >>

\* stop_finish that also releases the device manager, as reset does
stop_finish_discarding_device ==
    /\ pc = "ordered_resources_reset_return"
    /\ call.op = "stop"
    /\ m_device_manager' = NullDeviceManager
    /\ m_current_state' = "configured"
    /\ ret' = "status_no_error"
    /\ pc' = "idle"
    /\ m_state_lock' = "free"
    /\ events' = <<>>
    /\ built' = <<>>
    /\ received' = <<>>
    /\ dispatched' = <<>>
    /\ callbacks' = <<>>
    /\ UNCHANGED << m_cv_modules, m_modules_configs,
                    m_user_requested_time_sync_mode, m_samples_consumers,
                    m_samples_consumers_lock, m_context, call, caller_locals,
                    capture_vars, attempts >>

\* lines 275-276
stop_finish ==
    /\ pc = "ordered_resources_reset_return"
    /\ call.op = "stop"
    /\ m_current_state' = "configured"
    /\ ret' = "status_no_error"
    /\ pc' = "idle"
    /\ m_state_lock' = "free"
    /\ events' = <<>>
    /\ built' = <<>>
    /\ received' = <<>>
    /\ dispatched' = <<>>
    /\ callbacks' = <<>>
    /\ UNCHANGED << m_device_manager, m_cv_modules, m_modules_configs,
                    m_user_requested_time_sync_mode, m_samples_consumers,
                    m_samples_consumers_lock, m_context, call, caller_locals,
                    capture_vars, attempts >>

\* reset_finish without m_cv_modules.clear() (line 284)
reset_finish_keeping_modules ==
    /\ pc = "ordered_resources_reset_return"
    /\ call.op = "reset"
    /\ m_device_manager' = NullDeviceManager
    /\ m_modules_configs' = NoModulesConfigs
    /\ m_user_requested_time_sync_mode' = "sync_not_required"
    /\ m_current_state' = "unconfigured"
    /\ ret' = "status_no_error"
    /\ pc' = "idle"
    /\ m_state_lock' = "free"
    /\ events' = <<>>
    /\ built' = <<>>
    /\ received' = <<>>
    /\ dispatched' = <<>>
    /\ callbacks' = <<>>
    /\ UNCHANGED << m_cv_modules, m_samples_consumers, m_samples_consumers_lock,
                    m_context, call, caller_locals, capture_vars, attempts >>

\* lines 283-288
reset_finish ==
    /\ pc = "ordered_resources_reset_return"
    /\ call.op = "reset"
    /\ m_device_manager' = NullDeviceManager
    /\ m_cv_modules' = <<>>
    /\ m_modules_configs' = NoModulesConfigs
    /\ m_user_requested_time_sync_mode' = "sync_not_required"
    /\ m_current_state' = "unconfigured"
    /\ ret' = "status_no_error"
    /\ pc' = "idle"
    /\ m_state_lock' = "free"
    /\ events' = <<>>
    /\ built' = <<>>
    /\ received' = <<>>
    /\ dispatched' = <<>>
    /\ callbacks' = <<>>
    /\ UNCHANGED << m_samples_consumers, m_samples_consumers_lock, m_context, call,
                    caller_locals, capture_vars, attempts >>

\* line 600: the object is gone
destructor_finish ==
    /\ pc = "ordered_resources_reset_return"
    /\ call.op = "destructor"
    /\ pc' = "destroyed"
    /\ ret' = "destroyed"
    /\ UNCHANGED << pipeline_vars, m_samples_consumers, m_state_lock,
                    m_samples_consumers_lock, m_context, call, caller_locals,
                    capture_vars, history_vars >>

\* ---------------------------------------------------------------------
\* The capture thread: non_blocking_sample_callback
\* ---------------------------------------------------------------------

alive == pc \notin {"crashed", "destroyed"}

in_teardown ==
    pc \in {"ordered_resources_reset", "ordered_resources_reset_flush",
            "ordered_resources_reset_return"}

\* the started device produces the next sample set and calls the callback
\* the device manager was constructed with (line 520)
sample_callback ==
    /\ alive
    /\ cpc = "idle"
    /\ produced < MaxSamples
    /\ ~m_device_manager.is_null /\ m_device_manager.streaming
    /\ produced' = produced + 1
    /\ sample_set' = produced + 1
    /\ cpc' = "lock"
    /\ UNCHANGED << pipeline_vars, m_samples_consumers, m_state_lock,
                    m_samples_consumers_lock, m_context, pc, call, ret, caller_locals,
                    ci, history_vars >>

\* non_blocking_sample_callback_lock without the lock_guard of line 396
non_blocking_sample_callback_without_lock ==
    /\ alive
    /\ cpc = "lock"
    /\ ci' = 0
    /\ cpc' = "loop"
    /\ dispatched' = Append(dispatched,
            [sample_set |-> sample_set, size |-> Len(m_samples_consumers),
             state |-> m_current_state])
    /\ UNCHANGED << pipeline_vars, m_samples_consumers, m_state_lock,
                    m_samples_consumers_lock, m_context, pc, call, ret, caller_locals,
                    sample_set, produced, attempts, events, built, received, callbacks >>

\* non_blocking_sample_callback_lock that takes the state lock as the entry
\* points do
non_blocking_sample_callback_under_state_lock ==
    /\ alive
    /\ cpc = "lock"
    /\ m_state_lock = "free"
    /\ m_samples_consumers_lock = "free"
    /\ m_state_lock' = "capture"
    /\ m_samples_consumers_lock' = "capture"
    /\ ci' = 0
    /\ cpc' = "loop"
    /\ dispatched' = Append(dispatched,
            [sample_set |-> sample_set, size |-> Len(m_samples_consumers),
             state |-> m_current_state])
    /\ UNCHANGED << pipeline_vars, m_samples_consumers, m_context, pc,
                    call, ret, caller_locals, sample_set, produced, attempts, events,
                    built, received, callbacks >>

\* line 396: the consumer-list lock is taken
non_blocking_sample_callback_lock ==
    /\ alive
    /\ cpc = "lock"
    /\ m_samples_consumers_lock = "free"
    /\ m_samples_consumers_lock' = "capture"
    /\ ci' = 0
    /\ cpc' = "loop"
    /\ dispatched' = Append(dispatched,
            [sample_set |-> sample_set, size |-> Len(m_samples_consumers),
             state |-> m_current_state])
    /\ UNCHANGED << pipeline_vars, m_samples_consumers, m_state_lock, m_context, pc,
                    call, ret, caller_locals, sample_set, produced, attempts, events,
                    built, received, callbacks >>

\* lines 188-191: the lambda of the application's consumer
app_consumer_calls(set) ==
    << [cb |-> "on_new_sample_set", target |-> 0, sample_set |-> set] >>

\* sync_module_consumer_calls without the return of line 224
sync_module_consumer_calls_without_return(cv_module, app_callbacks_handler, process_failed, set) ==
    << [cb |-> IF process_failed THEN "process_sample_set_error"
               ELSE "process_sample_set_no_error",
        target |-> cv_module, sample_set |-> set] >>
    \o (IF process_failed /\ app_callbacks_handler
        THEN << [cb |-> "on_error", target |-> cv_module, sample_set |-> set] >>
        ELSE <<>>)
    \o (IF app_callbacks_handler
        THEN << [cb |-> "on_cv_module_process_complete", target |-> cv_module,
                 sample_set |-> set] >>
        ELSE <<>>)

\* lines 212-230: what the lambda of a synchronous module consumer calls, in
\* order; process_failed: process_sample_set returned a status below
\* status_no_error
sync_module_consumer_calls(cv_module, app_callbacks_handler, process_failed, set) ==
    << [cb |-> IF process_failed THEN "process_sample_set_error"
               ELSE "process_sample_set_no_error",
        target |-> cv_module, sample_set |-> set] >>
    \o (IF process_failed
        THEN (IF app_callbacks_handler
              THEN << [cb |-> "on_error", target |-> cv_module, sample_set |-> set] >>
              ELSE <<>>)
        ELSE (IF app_callbacks_handler
              THEN << [cb |-> "on_cv_module_process_complete", target |-> cv_module,
                       sample_set |-> set] >>
              ELSE <<>>))

\* samples_consumer_base::notify_sample_set_non_blocking: a synchronous
\* consumer invokes its lambda inline, an asynchronous one queues the sample
\* set for its own thread
notify_sample_set_non_blocking(consumer, process_failed, set) ==
    IF consumer.kind = "async" THEN <<>>
    ELSE IF consumer.target = 0 THEN app_consumer_calls(set)
    ELSE sync_module_consumer_calls(consumer.target, consumer.app_callbacks_handler,
                                    process_failed, set)

\* lines 397-400: one pass of the loop, consumer i is notified.
\* process_failed: what process_sample_set returns if the consumer calls it
non_blocking_sample_callback_notify(process_failed) ==
    /\ alive
    /\ cpc = "loop"
    /\ ci < Len(m_samples_consumers)
    /\ received' = IF ci + 1 <= Len(received)
                   THEN [received EXCEPT ![ci + 1] = Append(@, sample_set)]
                   ELSE received
    /\ events' = IF in_teardown
                 THEN Append(events, [e |-> "notify",
                                      target |-> m_samples_consumers[ci + 1].target])
                 ELSE events
    /\ callbacks' = callbacks \o notify_sample_set_non_blocking(
                          m_samples_consumers[ci + 1], process_failed, sample_set)
    /\ ci' = ci + 1
    /\ UNCHANGED << pipeline_vars, m_samples_consumers, m_state_lock,
                    m_samples_consumers_lock, m_context, pc, call, ret, caller_locals,
                    cpc, sample_set, produced, attempts, built, dispatched >>

\* line 401: the loop ends and the lock is released
non_blocking_sample_callback_return ==
    /\ alive
    /\ cpc = "loop"
    /\ ci >= Len(m_samples_consumers)
    /\ m_samples_consumers_lock' = "free"
    /\ cpc' = "idle"
    /\ ci' = 0
    /\ sample_set' = 0
    /\ callbacks' = <<>>
    /\ UNCHANGED << pipeline_vars, m_samples_consumers, m_state_lock, m_context, pc,
                    call, ret, caller_locals, produced, attempts, events, built,
                    received, dispatched >>

\* ---------------------------------------------------------------------
\* The specification
\* ---------------------------------------------------------------------

Next ==
    \/ \E cv_module \in Modules \cup {NullModule} : add_cv_module(cv_module)
    \/ query_current_config
    \/ get_device
    \/ get_device_return
    \/ \E config \in UserConfigs : set_config(config)
    \/ set_config_unsafe_begin
    \/ \E device_rejects \in BOOLEAN, rejecting \in 0..Len(m_cv_modules) :
            set_config_unsafe_attempt(device_rejects, rejecting)
    \/ set_config_unsafe_exhausted
    \/ set_config_return
    \/ \E app_callbacks_handler \in BOOLEAN : start(app_callbacks_handler)
    \/ start_after_set_config
    \/ start_preconditions_fail
    \/ \E device_start_throws \in BOOLEAN : start_build(device_start_throws)
    \/ start_commit
    \/ start_finish
    \/ stop
    \/ reset
    \/ destructor
    \/ ordered_resources_reset_clear
    \/ ordered_resources_reset_flush
    \/ ordered_resources_reset_stop
    \/ stop_finish
    \/ reset_finish
    \/ destructor_finish
    \/ sample_callback
    \/ non_blocking_sample_callback_lock
    \/ \E process_failed \in BOOLEAN : non_blocking_sample_callback_notify(process_failed)
    \/ non_blocking_sample_callback_return

Spec == Init /\ [][Next]_vars

\* set_config_unsafe_begin by its effect on the position of the caller: the
\* step waits for nothing, it is enabled exactly when pc = "set_config_unsafe",
\* and it is the only step that leaves that position.  (The first disjunct is
\* a case of the second; it spares the evaluation of the supersets where only
\* the enabledness of the step is asked for.)
set_config_unsafe_entered ==
    /\ pc = "set_config_unsafe"
    /\ \/ /\ pc' = "set_config_unsafe_return"
          /\ UNCHANGED << pipeline_vars, m_samples_consumers, m_state_lock,
                          m_samples_consumers_lock, m_context, call, ret,
                          caller_locals, capture_vars, history_vars >>
       \/ pc' \in {"set_config_unsafe_return", "set_config_unsafe_loop"}

\* the steps a caller thread takes once it is inside an entry point
caller_step ==
    \/ get_device_return
    \/ set_config_unsafe_entered
    \/ \E device_rejects \in BOOLEAN, rejecting \in 0..Len(m_cv_modules) :
            set_config_unsafe_attempt(device_rejects, rejecting)
    \/ set_config_unsafe_exhausted
    \/ set_config_return
    \/ start_after_set_config
    \/ start_preconditions_fail
    \/ \E device_start_throws \in BOOLEAN : start_build(device_start_throws)
    \/ start_commit
    \/ start_finish
    \/ ordered_resources_reset_clear
    \/ ordered_resources_reset_flush
    \/ ordered_resources_reset_stop
    \/ stop_finish
    \/ reset_finish
    \/ destructor_finish

\* the steps the capture thread takes once it is inside the callback
capture_step ==
    \/ non_blocking_sample_callback_lock
    \/ \E process_failed \in BOOLEAN : non_blocking_sample_callback_notify(process_failed)
    \/ non_blocking_sample_callback_return

\* both threads are scheduled fairly, and the modules, the consumers and the
\* device return from every call: a thread that can take its next step
\* eventually takes it
FairSpec == Spec /\ WF_vars(caller_step) /\ WF_vars(capture_step)

\* ---------------------------------------------------------------------
\* Properties
\* ---------------------------------------------------------------------

device_handle == [is_null |-> m_device_manager.is_null,
                  device |-> m_device_manager.device,
                  config |-> m_device_manager.config]

\* C1: whenever no call is in progress, a device manager and committed module
\* configurations exist if and only if the lifecycle state is configured or
\* streaming.  (Fails: a set_config made in state configured whose search fails
\* leaves state configured with a null device manager.)
C1_DeviceManagerIffConfigured ==
    pc = "idle" =>
        /\ (m_current_state \in {"configured", "streaming"}) <=> ~m_device_manager.is_null
        /\ m_current_state \in {"configured", "streaming"} =>
                DOMAIN m_modules_configs = Range(m_cv_modules)
        /\ m_current_state = "unconfigured" => m_modules_configs = NoModulesConfigs

\* what a teardown does when nothing interferes: clear, one flush per
\* registered module in registration order, then the device stop if a device
\* manager exists
expected_teardown ==
    << [e |-> "clear", target |-> 0] >>
    \o [k \in 1..Len(m_cv_modules) |-> [e |-> "flush", target |-> m_cv_modules[k]]]
    \o (IF m_device_manager.is_null THEN <<>> ELSE << [e |-> "stop", target |-> 0] >>)

teardown_events == SelectSeq(events, LAMBDA x : x.e # "notify")

IsPrefix(s, t) == Len(s) <= Len(t) /\ SubSeq(t, 1, Len(s)) = s

\* C2: in every teardown of stop(), reset() and the destructor the consumer
\* list is cleared first, then every registered module is flushed, then the
\* device is stopped; no consumer is notified once the list was cleared (so
\* none after the device stop) and no module is flushed after the device stop.
C2_TeardownOrder ==
    /\ IsPrefix(teardown_events, expected_teardown)
    /\ pc \in {"ordered_resources_reset_return", "destroyed"} =>
            teardown_events = expected_teardown
    /\ \A j, k \in 1..Len(events) :
            (events[j].e = "notify" /\ events[k].e \in {"clear", "stop"}) => j < k
    /\ \A j, k \in 1..Len(events) :
            (events[j].e \in {"clear", "flush"} /\ events[k].e = "stop") => j < k

\* a teardown of a streaming pipeline with two modules ran to its end, and a
\* callback notified a consumer while the teardown waited for the list lock
C2_Witness ==
    /\ pc = "ordered_resources_reset_return"
    /\ call.entry_state = "streaming"
    /\ Len(m_cv_modules) = 2
    /\ ~m_device_manager.is_null
    /\ \E k \in 1..Len(events) : events[k].e = "notify"
    /\ events[Len(events)].e = "stop"

\* the module has a candidate the superset satisfies
HasSatisfyingCandidate(m, superset) ==
    \E j \in 1..Len(ModuleSupported(m)) : IsSatisfied(superset, ModuleSupported(m)[j])

\* the device was acquired, every module has a satisfying configuration and
\* every module accepted its configuration
AttemptSucceeds(a) ==
    /\ ~a.device_throws
    /\ \A m \in Range(m_cv_modules) : HasSatisfyingCandidate(m, supersets[a.index])
    /\ a.rejecting = 0

\* C3: negotiation tries the supersets in generator order and commits the first
\* one for which device acquisition succeeds, every module has a satisfying
\* configuration and every module accepts; every earlier superset was
\* attempted and failed, and none is attempted after the commit.  When it
\* reports no match, every superset was attempted and none succeeded.
C3_FirstSucceedingSupersetCommitted ==
    LET n == Len(attempts) IN
    /\ \A k \in 1..n : attempts[k].index = k /\ k <= Len(supersets)
    /\ \A k \in 1..(n - 1) :
            attempts[k].outcome # "commit" /\ ~AttemptSucceeds(attempts[k])
    /\ pc = "set_config_unsafe_loop" =>
            /\ n = superset_index - 1
            /\ n > 0 => (attempts[n].outcome # "commit" /\ ~AttemptSucceeds(attempts[n]))
    /\ (pc = "set_config_unsafe_return" /\ set_config_status = "status_no_error") =>
            /\ n >= 1
            /\ attempts[n].outcome = "commit"
            /\ AttemptSucceeds(attempts[n])
            /\ ~m_device_manager.is_null
            /\ m_device_manager.config = supersets[n]
            /\ DOMAIN m_modules_configs = Range(m_cv_modules)
    /\ (pc = "set_config_unsafe_return" /\ set_config_status = "status_match_not_found") =>
            /\ n = Len(supersets)
            /\ \A k \in 1..n : attempts[k].outcome # "commit" /\ ~AttemptSucceeds(attempts[k])
            /\ n > 0 => m_device_manager.is_null

\* the second of four supersets was committed: the first found no device, and
\* the third and fourth were never attempted
C3_Witness ==
    /\ pc = "set_config_unsafe_return"
    /\ set_config_status = "status_no_error"
    /\ Len(supersets) = 4
    /\ Len(attempts) = 2
    /\ attempts[1].outcome = "device_failed"
    /\ attempts[2].outcome = "commit"

Count(seq, x) == Cardinality({k \in 1..Len(seq) : seq[k] = x})

\* dispatch k has left the loop of the callback
DispatchCompleted(k) == k < Len(dispatched) \/ cpc # "loop"

StrictlyIncreasing(seq) == \A j, k \in 1..Len(seq) : j < k => seq[j] < seq[k]

\* C4 as claimed: every sample set dispatched while the lifecycle state is
\* streaming is observed exactly once by each consumer start() built.
\* (Fails: stop() and reset() clear the list before they stop the device and
\* before the state changes, so a sample set dispatched in between reaches no
\* consumer.)
C4_EveryStreamingSampleObserved ==
    \A k \in 1..Len(dispatched) :
        (dispatched[k].state = "streaming" /\ DispatchCompleted(k)) =>
            \A i \in 1..Len(built) : Count(received[i], dispatched[k].sample_set) = 1

\* C4 amended: a sample set whose dispatch takes the consumer-list lock while
\* the list start() installed is in place is observed exactly once by each of
\* its N consumers, in producer order; a dispatch that finds the list cleared
\* by a teardown reaches no consumer; no other case exists.
C4_InstalledListObservesEachSampleOnce ==
    /\ Len(received) = Len(built)
    /\ \A i \in 1..Len(built) : StrictlyIncreasing(received[i])
    /\ \A k \in 1..Len(dispatched) :
         /\ dispatched[k].size \in {0, Len(built)}
         /\ DispatchCompleted(k) =>
              \A i \in 1..Len(built) :
                 Count(received[i], dispatched[k].sample_set)
                    = (IF dispatched[k].size = 0 THEN 0 ELSE 1)

\* two sample sets were dispatched to an installed list of three consumers
C4_Witness ==
    /\ Len(built) = 3
    /\ cpc = "idle"
    /\ Len(dispatched) = 2
    /\ dispatched[1].size = 3 /\ dispatched[2].size = 3
    /\ received[3] = <<1, 2>>

\* C5 as claimed: start() in state unconfigured with no module registered
\* succeeds with the hardcoded default configuration and ends in streaming.
\* (Fails: set_config_unsafe rejects the empty request.)
C5_StartAutoConfiguresDefault ==
    (pc = "idle" /\ call.op = "start" /\ call.entry_state = "unconfigured"
        /\ m_cv_modules = <<>>) =>
        /\ ret = "status_no_error"
        /\ m_current_state = "streaming"
        /\ ~m_device_manager.is_null
        /\ m_device_manager.config = get_hardcoded_superset_config

\* C5 amended: start() in state unconfigured with no module registered returns
\* invalid-argument; nothing is configured: the state stays unconfigured, with
\* no device manager, no module configuration and no consumer.
C5_StartWithNothingToNegotiateFails ==
    (pc = "idle" /\ call.op = "start" /\ call.entry_state = "unconfigured"
        /\ m_cv_modules = <<>>) =>
        /\ ret = "status_invalid_argument"
        /\ m_current_state = "unconfigured"
        /\ m_device_manager.is_null
        /\ m_modules_configs = NoModulesConfigs
        /\ m_samples_consumers = <<>>

\* start(handler) returned in a pipeline without modules that was unconfigured
C5_Witness ==
    /\ pc = "idle"
    /\ call.op = "start"
    /\ call.app_callbacks_handler
    /\ call.entry_state = "unconfigured"
    /\ m_cv_modules = <<>>
    /\ ret # "pending"

\* C6: a set_config made in state configured whose search finds no superset
\* that succeeds leaves the pipeline in state unconfigured with no device.
\* (Fails: the state stays configured; with no superset at all the device
\* manager stays too.)
C6_FailedRenegotiationUnconfigures ==
    (pc = "idle" /\ call.op = "set_config" /\ call.entry_state = "configured"
        /\ ret = "status_match_not_found") =>
        /\ m_current_state = "unconfigured"
        /\ m_device_manager.is_null

IllegalCall(op, state) ==
    \/ op \in {"set_config", "start"} /\ state = "streaming"
    \/ op = "stop" /\ state \in {"unconfigured", "configured"}
    \/ op = "query_current_config" /\ state = "unconfigured"

\* C7: set_config or start in streaming, stop in unconfigured or configured,
\* and query_current_config in unconfigured return invalid-state at once and
\* change neither the lifecycle state, the device manager, the module list,
\* the module configurations nor the consumer list, and run no teardown.
C7_IllegalCallsRejected ==
    [][ (pc = "idle" /\ UNCHANGED capture_vars
            /\ IllegalCall(call'.op, m_current_state)) =>
            /\ ret' = "status_invalid_state"
            /\ pc' = "idle"
            /\ UNCHANGED << pipeline_vars, m_samples_consumers, events >> ]_vars

\* start() was refused while the pipeline streams to its consumers
C7_Witness ==
    /\ pc = "idle"
    /\ call.op = "start"
    /\ call.entry_state = "streaming"
    /\ ret = "status_invalid_state"
    /\ m_current_state = "streaming"
    /\ m_samples_consumers # <<>>

NoDuplicateModules ==
    \A j, k \in 1..Len(m_cv_modules) : j # k => m_cv_modules[j] # m_cv_modules[k]

\* C8: add_cv_module appends the handle and returns success exactly when the
\* handle is not null, the state is unconfigured and the handle is not yet
\* registered; otherwise it returns an error (invalid-state in configured and
\* streaming, duplicate for a registered handle in unconfigured) and changes
\* neither the module list nor the state; the list never holds a handle twice.
C8_AddCvModule ==
    [][ /\ NoDuplicateModules'
        /\ (pc = "idle" /\ UNCHANGED capture_vars /\ call'.op = "add_cv_module") =>
             LET m  == call'.cv_module
                 ok == /\ m # NullModule
                       /\ m_current_state = "unconfigured"
                       /\ m \notin Range(m_cv_modules)
             IN  /\ m_current_state' = m_current_state
                 /\ pc' = "idle"
                 /\ ok => (ret' = "status_no_error"
                           /\ m_cv_modules' = Append(m_cv_modules, m))
                 /\ ~ok => (ret' # "status_no_error" /\ m_cv_modules' = m_cv_modules)
                 /\ (m # NullModule /\ m_current_state # "unconfigured") =>
                        ret' = "status_invalid_state"
                 /\ (m # NullModule /\ m_current_state = "unconfigured"
                        /\ m \in Range(m_cv_modules)) =>
                        ret' = "status_param_inplace" ]_vars

\* a registered handle was offered again and refused as a duplicate
C8_Witness ==
    /\ pc = "idle"
    /\ call.op = "add_cv_module"
    /\ ret = "status_param_inplace"
    /\ call.cv_module \in Range(m_cv_modules)
    /\ Len(m_cv_modules) = 2

\* C9: stop() from streaming ends in configured and changes neither the device
\* handle, the module list nor the module configurations at any of its steps;
\* once it has returned query_current_config succeeds and start() finds the
\* state configured with a device manager, so it negotiates nothing.
C9_StopKeepsConfiguration ==
    [][ (call'.op = "stop" /\ call'.entry_state = "streaming") =>
            /\ device_handle' = device_handle
            /\ UNCHANGED << m_cv_modules, m_modules_configs >>
            /\ pc' = "idle" =>
                 /\ ret' = "status_no_error"
                 /\ m_current_state' = "configured"
                 /\ query_current_config_status' = "status_no_error"
                 /\ start_preconditions' ]_vars

\* stop() returned from a streaming pipeline with a module
C9_Witness ==
    /\ pc = "idle"
    /\ call.op = "stop"
    /\ call.entry_state = "streaming"
    /\ ret = "status_no_error"
    /\ Len(m_cv_modules) >= 1
    /\ DOMAIN m_modules_configs = Range(m_cv_modules)

\* C10: reset() succeeds from every lifecycle state; when it has returned the
\* state is unconfigured, there is no device manager, the module list, the
\* module configurations and the consumer list are empty, and
\* query_current_config returns invalid-state.
C10_ResetReturnsToUnconfigured ==
    (pc = "idle" /\ call.op = "reset") =>
        /\ ret = "status_no_error"
        /\ m_current_state = "unconfigured"
        /\ m_device_manager = NullDeviceManager
        /\ m_cv_modules = <<>>
        /\ m_modules_configs = NoModulesConfigs
        /\ m_samples_consumers = <<>>
        /\ query_current_config_status = "status_invalid_state"

\* reset() returned from a streaming pipeline
C10_Witness ==
    /\ pc = "idle"
    /\ call.op = "reset"
    /\ call.entry_state = "streaming"
    /\ ret = "status_no_error"

\* every configuration the module supports names the device
RequiresDevice(m, name) ==
    \A j \in 1..Len(ModuleSupported(m)) : ModuleSupported(m)[j].device_name = name

\* C11: while a registered module requires device "X" and the context has no
\* device of that name, every attempt of a negotiation fails at the device
\* acquisition or at the matching, the negotiation tries every superset and
\* returns no-match, nothing is committed and the pipeline is unconfigured.
C11_MissingDeviceExhaustsSupersets ==
    ((\E m \in Range(m_cv_modules) : RequiresDevice(m, "X"))
        /\ "X" \notin Range(m_context)) =>
        /\ m_current_state = "unconfigured"
        /\ m_device_manager.is_null
        /\ m_modules_configs = NoModulesConfigs
        /\ \A k \in 1..Len(attempts) :
                attempts[k].index = k
                /\ attempts[k].outcome \in {"device_failed", "no_match"}
        /\ pc = "set_config_unsafe_return" =>
                /\ set_config_status = "status_match_not_found"
                /\ Len(attempts) = Len(supersets)
        /\ (pc = "idle" /\ call.op \in {"set_config", "start"}) =>
                ret = "status_match_not_found"

\* a negotiation with a module that requires "X" tried two supersets and
\* reported no match
C11_Witness ==
    /\ pc = "set_config_unsafe_return"
    /\ \E m \in Range(m_cv_modules) : RequiresDevice(m, "X")
    /\ Len(supersets) >= 2
    /\ Len(attempts) = Len(supersets)
    /\ set_config_status = "status_match_not_found"

\* the position of the first candidate of the module the superset satisfies
FirstSatisfyingIndex(m, superset) ==
    CHOOSE j \in 1..Len(ModuleSupported(m)) :
        /\ IsSatisfied(superset, ModuleSupported(m)[j])
        /\ \A i \in 1..(j - 1) : ~IsSatisfied(superset, ModuleSupported(m)[i])

\* the entry of m_modules_configs a candidate yields
ModuleConfigOf(candidate) ==
    [actual_module_config |->
        create_actual_config_from_supported_config(m_device_manager, candidate),
     is_async |-> candidate.async_processing,
     time_sync_mode |-> candidate.samples_time_sync_mode]

\* C12: for every registered module and the superset being tried, the matcher
\* finds a configuration exactly when some candidate of the module is
\* satisfied, and then returns the satisfied candidate of lowest index; the
\* committed module configurations are built from these candidates.
C12_MatcherReturnsFirstSatisfied ==
    /\ (pc = "set_config_unsafe_loop" /\ superset_index <= Len(supersets)) =>
            \A m \in Range(m_cv_modules) :
                LET superset == supersets[superset_index]
                    r == is_there_a_satisfying_module_config(m, superset, 0)
                IN  /\ r.found <=> HasSatisfyingCandidate(m, superset)
                    /\ r.found => r.satisfying_config
                            = ModuleSupported(m)[FirstSatisfyingIndex(m, superset)]
    /\ (pc = "set_config_unsafe_return" /\ set_config_status = "status_no_error") =>
            \A m \in Range(m_cv_modules) :
                m_modules_configs[m] = ModuleConfigOf(
                    ModuleSupported(m)[FirstSatisfyingIndex(m, m_device_manager.config)])

\* a superset that satisfies both candidates of module 1 was committed, and
\* module 1 got its candidate of index 0 (the synchronous one)
C12_Witness ==
    /\ pc = "set_config_unsafe_return"
    /\ set_config_status = "status_no_error"
    /\ 1 \in Range(m_cv_modules)
    /\ \A j \in 1..2 : IsSatisfied(m_device_manager.config, ModuleSupported(1)[j])
    /\ ~m_modules_configs[1].is_async

\* the device-name condition as claimed: the candidate's own filter is empty or
\* equals the device name of the superset
CandidateFilterAdmits(superset, candidate) ==
    candidate.device_name = "" \/ candidate.device_name = superset.device_name

\* C13: whenever the matcher runs (a device was acquired for the superset), a
\* candidate passes the device-name test exactly when its own device-name
\* filter is empty or equals the device name of the superset.  (Fails: the test
\* of lines 328-329 asks whether the superset's name is empty, not the
\* candidate's.)
C13_DeviceNameCondition ==
    (pc = "set_config_unsafe_loop" /\ superset_index <= Len(supersets)
        /\ ~get_device_from_config(supersets[superset_index]).is_null) =>
        \A m \in Range(m_cv_modules) :
            \A j \in 1..Len(ModuleSupported(m)) :
                is_the_device_in_the_current_config_valid(
                    supersets[superset_index], ModuleSupported(m)[j])
                <=> CandidateFilterAdmits(supersets[superset_index], ModuleSupported(m)[j])

\* C14: when a module rejects its configuration in an attempt,
\* set_module_config was called on the modules up to the rejecting one,
\* reset_config is called on each of them (and on every other module), no
\* device manager is left, the module configurations, the time sync mode and
\* the state are unchanged, and the loop goes on with the next superset.
C14_RejectionRollsBack ==
    [][ (Len(attempts') = Len(attempts) + 1
            /\ attempts'[Len(attempts')].outcome = "module_rejected") =>
            LET a == attempts'[Len(attempts')]
            IN  /\ a.rejecting \in 1..Len(m_cv_modules)
                /\ a.set_module_config = SubSeq(m_cv_modules, 1, a.rejecting)
                /\ Range(a.set_module_config) \subseteq Range(a.reset_config)
                /\ m_device_manager' = NullDeviceManager
                /\ UNCHANGED << m_modules_configs, m_user_requested_time_sync_mode,
                                m_current_state, m_cv_modules >>
                /\ pc' = "set_config_unsafe_loop"
                /\ superset_index' = superset_index + 1 ]_vars

\* the second of two modules rejected the second superset and the third is next
C14_Witness ==
    /\ pc = "set_config_unsafe_loop"
    /\ Len(m_cv_modules) = 2
    /\ Len(attempts) = 2
    /\ attempts[2].outcome = "module_rejected"
    /\ attempts[2].rejecting = 2
    /\ superset_index = 3
    /\ superset_index <= Len(supersets)

\* C15: when the device fails to start, start() returns device-failure, the
\* state is configured, the device manager (not started), the module list, the
\* module configurations and the time sync mode are as negotiated, every
\* module has its configuration, and the consumer list is empty.
C15_DeviceStartFailureKeepsConfigured ==
    [][ (call.op = "start" /\ ret = "pending" /\ ret' = "status_device_failed") =>
            /\ m_current_state' = "configured"
            /\ ~m_device_manager'.is_null
            /\ ~m_device_manager'.streaming
            /\ UNCHANGED << m_device_manager, m_cv_modules, m_modules_configs,
                            m_user_requested_time_sync_mode >>
            /\ DOMAIN m_modules_configs' = Range(m_cv_modules')
            /\ m_samples_consumers' = <<>>
            /\ pc' = "idle"
            /\ m_state_lock' = "free" ]_vars

\* start() entered in unconfigured with a module, configured itself, and the
\* device failed to start
C15_Witness ==
    /\ pc = "idle"
    /\ call.op = "start"
    /\ call.entry_state = "unconfigured"
    /\ ret = "status_device_failed"
    /\ m_current_state = "configured"
    /\ Len(m_cv_modules) >= 1

\* C16: a negotiation entered with an empty configuration and no registered
\* module sets status invalid-argument in its first step, attempts no superset,
\* and neither that step nor the return to the caller changes the state, the
\* device manager, the module list, the module configurations or the time
\* sync mode; the caller gets invalid-argument.
C16_NothingToNegotiateRejected ==
    [][ /\ (pc = "set_config_unsafe" /\ pc' # pc
                /\ is_config_empty(unsafe_config) /\ m_cv_modules = <<>>) =>
                /\ set_config_status' = "status_invalid_argument"
                /\ pc' = "set_config_unsafe_return"
                /\ attempts' = <<>>
                /\ UNCHANGED pipeline_vars
        /\ (pc = "set_config_unsafe_return" /\ pc' # pc
                /\ set_config_status = "status_invalid_argument") =>
                /\ ret' = "status_invalid_argument"
                /\ pc' = "idle"
                /\ UNCHANGED pipeline_vars ]_vars

\* set_config({}) was rejected in a configured pipeline without modules, and
\* the device manager is still there
C16_Witness ==
    /\ pc = "idle"
    /\ call.op = "set_config"
    /\ call.entry_state = "configured"
    /\ ret = "status_invalid_argument"
    /\ m_cv_modules = <<>>
    /\ ~m_device_manager.is_null

\* C17: the capture thread never owns the state lock; its steps need at most
\* the consumer-list lock (taking it when it is free, notifying and returning
\* whoever owns the state lock), and with no call in progress set_config,
\* query_current_config and add_cv_module can proceed whatever the capture
\* thread is doing.
C17_DeliveryIndependentOfStateLock ==
    /\ m_state_lock \in {"free", "caller"}
    /\ (alive /\ cpc = "lock" /\ m_samples_consumers_lock = "free") =>
            ENABLED non_blocking_sample_callback_lock
    /\ (alive /\ cpc = "loop") =>
            \/ ENABLED (\E process_failed \in BOOLEAN :
                            non_blocking_sample_callback_notify(process_failed))
            \/ ENABLED non_blocking_sample_callback_return
    /\ pc = "idle" =>
            /\ ENABLED (\E config \in UserConfigs : set_config(config))
            /\ ENABLED query_current_config
            /\ ENABLED (\E cv_module \in Modules : add_cv_module(cv_module))

\* a consumer was notified while a lifecycle call held the state lock
C17_Witness ==
    /\ m_state_lock = "caller"
    /\ cpc = "loop"
    /\ ci >= 1
    /\ m_samples_consumers_lock = "capture"

\* C18: whenever an entry point is at work on the lifecycle state, the device
\* manager, the module list or the module configurations, the calling thread
\* holds the state lock.  (Fails: get_device and the destructor take no lock.)
C18_StateAccessUnderStateLock ==
    pc \notin {"idle", "crashed", "destroyed"} => m_state_lock = "caller"

HasCallback(cb, target) ==
    \E k \in 1..Len(callbacks) :
        callbacks[k].cb = cb /\ callbacks[k].target = target
            /\ callbacks[k].sample_set = sample_set

\* C19: during a dispatch every consumer the loop has passed was notified of
\* the sample set, whatever the earlier consumers returned; for a synchronous
\* module consumer with an application handler, on_error was called exactly
\* when process_sample_set failed and on_cv_module_process_complete exactly
\* when it succeeded; without a handler neither is called.
C19_SyncModuleErrorsReported ==
    cpc = "loop" =>
        \A k \in 1..ci :
            k <= Len(m_samples_consumers) =>
                LET c      == m_samples_consumers[k]
                    failed == HasCallback("process_sample_set_error", c.target)
                    ok     == HasCallback("process_sample_set_no_error", c.target)
                IN  /\ \E j \in 1..Len(received[k]) : received[k][j] = sample_set
                    /\ (c.kind = "sync" /\ c.target # 0) =>
                          /\ failed # ok
                          /\ HasCallback("on_error", c.target)
                                <=> (failed /\ c.app_callbacks_handler)
                          /\ HasCallback("on_cv_module_process_complete", c.target)
                                <=> (ok /\ c.app_callbacks_handler)

\* module 1 failed to process the sample set, on_error was called, and the
\* consumer of module 2 after it was notified of the same sample set
C19_Witness ==
    /\ cpc = "loop"
    /\ ci = Len(m_samples_consumers)
    /\ ci >= 2
    /\ m_samples_consumers[ci - 1].target = 1
    /\ m_samples_consumers[ci].target = 2
    /\ HasCallback("on_error", 1)
    /\ ~HasCallback("on_cv_module_process_complete", 1)
    /\ \E j \in 1..Len(received[ci]) : received[ci][j] = sample_set

\* C20: when start() is about to build the consumers, the state is configured
\* and the device manager exists.  (Fails after a set_config that failed in
\* state configured: the state is configured, the device manager is null.)
C20_StartAssertionsHold ==
    pc = "start_build" => start_preconditions

\* the number of consumers ahead of the modules' consumers
AppConsumers(app_callbacks_handler) == IF app_callbacks_handler THEN 1 ELSE 0

\* C21: the list a successful start() installs holds, first, one synchronous
\* consumer of the application if a handler was supplied, then one consumer
\* per registered module in registration order, asynchronous exactly when the
\* module's committed configuration has the async flag; the list stays as
\* installed while it is non-empty, and in a dispatch the consumers notified
\* so far are exactly the first ci of the list.
C21_OneConsumerPerPartyInOrder ==
    /\ pc = "start_finish" =>
          LET h == call.app_callbacks_handler
              a == AppConsumers(h)
          IN  /\ Len(m_samples_consumers) = a + Len(m_cv_modules)
              /\ h => (m_samples_consumers[1].target = 0
                        /\ m_samples_consumers[1].kind = "sync")
              /\ \A k \in 1..Len(m_cv_modules) :
                    /\ m_samples_consumers[a + k].target = m_cv_modules[k]
                    /\ m_samples_consumers[a + k].kind
                          = (IF m_modules_configs[m_cv_modules[k]].is_async
                             THEN "async" ELSE "sync")
    /\ m_samples_consumers # <<>> => m_samples_consumers = built
    /\ cpc = "loop" =>
          \A k \in 1..Len(m_samples_consumers) :
              (\E j \in 1..Len(received[k]) : received[k][j] = sample_set) <=> k <= ci

\* start(handler) installed the application's consumer, then a synchronous
\* and an asynchronous module consumer
C21_Witness ==
    /\ pc = "start_finish"
    /\ call.app_callbacks_handler
    /\ Len(m_samples_consumers) = 3
    /\ m_samples_consumers[2].kind = "sync"
    /\ m_samples_consumers[3].kind = "async"

\* C22: whenever no lifecycle call is in progress and the state is not
\* streaming, the consumer list is empty, so a dispatch then has no consumer
\* to notify.
C22_NoConsumersUnlessStreaming ==
    (pc = "idle" /\ m_current_state # "streaming") =>
        /\ m_samples_consumers = <<>>
        /\ ~ENABLED (\E process_failed \in BOOLEAN :
                        non_blocking_sample_callback_notify(process_failed))

\* stop() returned after the pipeline had dispatched a sample set to three
\* consumers
C22_Witness ==
    /\ pc = "idle"
    /\ call.op = "stop"
    /\ ret = "status_no_error"
    /\ m_current_state = "configured"
    /\ produced >= 1
    /\ Len(m_cv_modules) = 2
    /\ m_samples_consumers = <<>>

\* C23: whenever the state is configured or streaming, the keys of
\* m_modules_configs are exactly the registered modules, and the lookups of
\* start() (lines 198-200) insert no entry.
C23_ModuleConfigKeysAreModules ==
    /\ m_current_state \in {"configured", "streaming"} =>
            DOMAIN m_modules_configs = Range(m_cv_modules)
    /\ (pc = "start_build" /\ m_current_state = "configured") =>
            modules_configs_after_lookup = m_modules_configs

\* start() is about to build the consumers of two configured modules
C23_Witness ==
    /\ pc = "start_build"
    /\ start_preconditions
    /\ Len(m_cv_modules) = 2
    /\ DOMAIN m_modules_configs = {1, 2}

\* C24: under fair scheduling every lifecycle call that was entered
\* eventually returns (or the destructor completes), and every dispatch the
\* capture thread entered eventually returns.  (Fails: a start() that follows
\* a set_config that failed in state configured never returns; it ends the
\* process at the assertion of line 178.)
C24_EveryCallAndDispatchReturns ==
    /\ (pc \notin {"idle", "destroyed"}) ~> (pc \in {"idle", "destroyed"})
    /\ (cpc # "idle") ~> (cpc = "idle")

====
